---------------------------- MODULE Spec2Model ----------------------------
(***************************************************************************)
(* A model of src/main.py: the ModelicaMatReader (decode of the packed     *)
(* name matrix, resolution of each name through dataInfo into data_1 /     *)
(* data_2, expression evaluation, classification, search, statistics) and  *)
(* the LoadingThread that runs load_data on the one shared reader.         *)
(*                                                                         *)
(* Representation.  A Python str is a sequence of characters, a character  *)
(* is a one-character TLA+ string, and NUL stands for '\x00'.  A numpy     *)
(* 2-D array is a sequence of rows.  A float sample is an integer.  The    *)
(* dict returned by scipy.io.loadmat is a record: `has` is its key set.    *)
(***************************************************************************)
EXTENDS Integers, Sequences, FiniteSets, TLC

VARIABLES
    file_path,      \* ModelicaMatReader.file_path
    data,           \* ModelicaMatReader.data
    keys,           \* ModelicaMatReader.keys
    values,         \* ModelicaMatReader.values
    time_vector,    \* ModelicaMatReader.time_vector
    thr,            \* the LoadingThreads: position, argument, locals
    emitted,        \* per thread, the finished(bool, str) signals it emitted
    calls,          \* per thread, how often each pipeline stage was entered
    sigq,           \* finished signals queued for the GUI thread
    ui_log,         \* the message boxes on_file_loaded has shown
    category_lists, \* ModelicaMatAnalyzer.category_lists: the names each list shows
    before,         \* per thread, the reader's fields when select_file started
                    \* it, kept when no other load was running then
    result          \* the last call made on the reader and what it returned

readerVars == <<file_path, data, keys, values, time_vector>>
threadVars == <<thr, emitted, calls, sigq, ui_log, before>>
vars == <<file_path, data, keys, values, time_vector,
          thr, emitted, calls, sigq, ui_log, category_lists, before, result>>

---------------------------------------------------------------------------
(* Python and numpy primitives *)

NUL == "NUL"

None == [kind |-> "None"]

\* A Python list / str as a set of its elements.
Range(s) == {s[i] : i \in 1..Len(s)}

\* numpy: an index idx into an axis of length n is accepted when
\* -n <= idx < n; a negative index counts from the end.
NpInBounds(n, idx) == idx >= -n /\ idx < n

\* The 1-based position numpy reads for the accepted 0-based index idx.
NpPos(n, idx) == IF idx < 0 THEN idx + n + 1 ELSE idx + 1

\* `sub in s` for two str: s holds sub as a contiguous slice.
Contains(s, sub) ==
    \E i \in 0..(Len(s) - Len(sub)) :
        \A j \in 1..Len(sub) : s[i + j] = sub[j]

UpperChars == <<"A","B","C","D","E","F","G","H","I","J","K","L","M",
                "N","O","P","Q","R","S","T","U","V","W","X","Y","Z">>
LowerChars == <<"a","b","c","d","e","f","g","h","i","j","k","l","m",
                "n","o","p","q","r","s","t","u","v","w","x","y","z">>

\* str.lower() on one character.
LowerChar(c) ==
    IF \E i \in 1..Len(UpperChars) : UpperChars[i] = c
    THEN LowerChars[CHOOSE i \in 1..Len(UpperChars) : UpperChars[i] = c]
    ELSE c

\* str.lower()
RECURSIVE Lower(_)
Lower(s) ==
    IF Len(s) = 0 THEN <<>> ELSE <<LowerChar(Head(s))>> \o Lower(Tail(s))

Whitespace == {" ", "\t", "\n"}

RECURSIVE LStrip(_)
LStrip(s) ==
    IF Len(s) > 0 /\ Head(s) \in Whitespace THEN LStrip(Tail(s)) ELSE s

RECURSIVE RStrip(_)
RStrip(s) ==
    IF Len(s) > 0 /\ s[Len(s)] \in Whitespace
    THEN RStrip(SubSeq(s, 1, Len(s) - 1))
    ELSE s

\* str.strip()
Strip(s) == RStrip(LStrip(s))

\* str.split(sep) for a one-character sep: the parts between the separators,
\* empty parts kept.
RECURSIVE SplitFrom(_, _, _, _)
SplitFrom(s, sep, i, cur) ==
    IF i > Len(s) THEN <<cur>>
    ELSE IF s[i] = sep THEN <<cur>> \o SplitFrom(s, sep, i + 1, <<>>)
    ELSE SplitFrom(s, sep, i + 1, Append(cur, s[i]))

Split(s, sep) == SplitFrom(s, sep, 1, <<>>)

\* dict.get(key, [])
Get(d, key) == IF key \in DOMAIN d THEN d[key] ELSE <<>>

\* d[key] = v on a dict
Put(d, key, v) == [k \in (DOMAIN d) \cup {key} |-> IF k = key THEN v ELSE d[k]]

EmptyDict == [k \in {} |-> <<>>]

---------------------------------------------------------------------------
(* ModelicaMatReader._parse_keys_original *)

\* ScanColumn with the inner loop over range(len(name)): the final row read.
RECURSIVE ScanColumnAllRows(_, _, _)
ScanColumnAllRows(name, xx, i) ==
    IF i >= Len(name) THEN <<>>
    ELSE IF Len(name[i + 1]) < xx THEN <<>>
    ELSE IF ~NpInBounds(Len(name[i + 1]), xx) THEN <<>>
    ELSE IF name[i + 1][NpPos(Len(name[i + 1]), xx)] = NUL THEN <<>>
    ELSE <<name[i + 1][NpPos(Len(name[i + 1]), xx)]>>
             \o ScanColumnAllRows(name, xx, i + 1)

\* The inner loop over the rows for column xx (0-based), from row i (0-based):
\* the characters it appends to key before it breaks or runs out of rows.
RECURSIVE ScanColumn(_, _, _)
ScanColumn(name, xx, i) ==
    IF i >= Len(name) - 1 THEN <<>>                 \* range(len(name) - 1)
    ELSE IF Len(name[i + 1]) < xx THEN <<>>          \* ragged row: break
    ELSE IF ~NpInBounds(Len(name[i + 1]), xx) THEN <<>>   \* IndexError: break
    ELSE IF name[i + 1][NpPos(Len(name[i + 1]), xx)] = NUL THEN <<>>
    ELSE <<name[i + 1][NpPos(Len(name[i + 1]), xx)]>> \o ScanColumn(name, xx, i + 1)

\* The outer loop from column xx on: one key per column below the bound.
RECURSIVE ScanColumns(_, _, _)
ScanColumns(name, xx, bound) ==
    IF xx >= bound THEN <<>>
    ELSE <<ScanColumn(name, xx, 0)>> \o ScanColumns(name, xx + 1, bound)

\* [exc, keys]: the exception that leaves the method ("" when none) and the
\* list it assigns to self.keys.
ParseKeys(d) ==
    IF "name" \notin d.has THEN [exc |-> "KeyError", keys |-> <<>>]
    ELSE IF Len(d.name) = 0 THEN [exc |-> "IndexError", keys |-> <<>>]
    ELSE [exc |-> "", keys |-> ScanColumns(d.name, 0, Len(d.name[1]) - 1)]

---------------------------------------------------------------------------
(* ModelicaMatReader._parse_values_original *)

Block(d, data_index) == IF data_index = 1 THEN d.data_1 ELSE d.data_2

BlockName(data_index) == IF data_index = 1 THEN "data_1" ELSE "data_2"

\* The body of the try for one index (0-based): <<row>> when it reaches
\* values[value] = dataV.tolist(), <<>> when it raises or the selector is
\* neither 1 nor 2.
ResolveOne(d, index) ==
    IF "dataInfo" \notin d.has THEN <<>>
    ELSE IF ~NpInBounds(Len(d.dataInfo), 0) THEN <<>>
    ELSE IF ~NpInBounds(Len(d.dataInfo[1]), index) THEN <<>>
    ELSE IF ~NpInBounds(Len(d.dataInfo), 1) THEN <<>>
    ELSE LET data_index == d.dataInfo[1][NpPos(Len(d.dataInfo[1]), index)]
             line_num == d.dataInfo[2][NpPos(Len(d.dataInfo[2]), index)] - 1
         IN  IF data_index \notin {1, 2} THEN <<>>
             ELSE IF BlockName(data_index) \notin d.has THEN <<>>
             ELSE IF ~NpInBounds(Len(Block(d, data_index)), line_num) THEN <<>>
             ELSE <<Block(d, data_index)[NpPos(Len(Block(d, data_index)), line_num)]>>

\* The loop with `if value not in values` added before the store: the first
\* column of a name keeps its entry.
RECURSIVE ParseValuesFromKeepFirst(_, _, _, _)
ParseValuesFromKeepFirst(ks, d, index, vals) ==
    IF index >= Len(ks) THEN vals
    ELSE ParseValuesFromKeepFirst(ks, d, index + 1,
             IF ResolveOne(d, index) = <<>> \/ ks[index + 1] \in DOMAIN vals
             THEN vals
             ELSE Put(vals, ks[index + 1], ResolveOne(d, index)[1]))

\* The loop over enumerate(self.keys) from index (0-based) on.
RECURSIVE ParseValuesFrom(_, _, _, _)
ParseValuesFrom(ks, d, index, vals) ==
    IF index >= Len(ks) THEN vals
    ELSE ParseValuesFrom(ks, d, index + 1,
             IF ResolveOne(d, index) = <<>> THEN vals
             ELSE Put(vals, ks[index + 1], ResolveOne(d, index)[1]))

ParseValues(ks, d) == ParseValuesFrom(ks, d, 0, EmptyDict)

(* ModelicaMatReader._extract_time_original *)
ExtractTime(d) ==
    IF "data_2" \notin d.has THEN <<>>
    ELSE IF ~NpInBounds(Len(d.data_2), 0) THEN <<>>
    ELSE d.data_2[1]

---------------------------------------------------------------------------
(* ModelicaMatReader._is_expression, _evaluate_expression, read_variables *)

operators == <<"+", "-", "*", "/", "(", ")">>

IsExpression(key) ==
    \E i \in 1..Len(operators) : Contains(key, <<operators[i]>>)

\* _evaluate_expression with the operands of the difference exchanged.
EvaluateExpressionSwapped(expression, vals) ==
    IF Contains(expression, <<"-">>) /\ Contains(expression, <<"[">>)
    THEN LET parts == Split(expression, "-")
         IN  IF Len(parts) = 2
             THEN LET v1 == Get(vals, Strip(parts[1]))
                      v2 == Get(vals, Strip(parts[2]))
                  IN  IF Len(v1) > 0 /\ Len(v2) > 0 /\ Len(v1) = Len(v2)
                      THEN [i \in 1..Len(v1) |-> v2[i] - v1[i]]
                      ELSE <<>>
             ELSE <<>>
    ELSE <<>>

\* _evaluate_expression with a second branch that adds the two operands of
\* a '+' key.
EvaluateExpressionWithSum(expression, vals) ==
    LET minus == Split(expression, "-")
        plus == Split(expression, "+")
        Operand(parts, k) == Get(vals, Strip(parts[k]))
        Both(parts) == /\ Len(Operand(parts, 1)) > 0
                       /\ Len(Operand(parts, 2)) > 0
                       /\ Len(Operand(parts, 1)) = Len(Operand(parts, 2))
    IN  IF Contains(expression, <<"-">>) /\ Contains(expression, <<"[">>)
           /\ Len(minus) = 2 /\ Both(minus)
        THEN [i \in 1..Len(Operand(minus, 1)) |->
                 Operand(minus, 1)[i] - Operand(minus, 2)[i]]
        ELSE IF Contains(expression, <<"+">>) /\ Len(plus) = 2 /\ Both(plus)
        THEN [i \in 1..Len(Operand(plus, 1)) |->
                 Operand(plus, 1)[i] + Operand(plus, 2)[i]]
        ELSE <<>>

EvaluateExpression(expression, vals) ==
    IF Contains(expression, <<"-">>) /\ Contains(expression, <<"[">>)
    THEN LET parts == Split(expression, "-")
         IN  IF Len(parts) = 2
             THEN LET var1 == Strip(parts[1])
                      var2 == Strip(parts[2])
                      v1 == Get(vals, var1)
                      v2 == Get(vals, var2)
                  IN  IF Len(v1) > 0 /\ Len(v2) > 0 /\ Len(v1) = Len(v2)
                      THEN [i \in 1..Len(v1) |-> v1[i] - v2[i]]
                      ELSE <<>>
             ELSE <<>>
    ELSE <<>>

\* The value appended to rv for one requested key.
ReadOne(rk, vals) ==
    IF IsExpression(rk) THEN EvaluateExpression(rk, vals) ELSE Get(vals, rk)

\* rv, the first component of what read_variables returns.
ReadVariables(read_keys, vals) ==
    [i \in 1..Len(read_keys) |-> ReadOne(read_keys[i], vals)]

---------------------------------------------------------------------------
(* ModelicaMatReader.get_variable_categories *)

TimeKeyword == <<"t","i","m","e">>

ElectricalKeywords ==
    <<<<"v","o","l","t","a","g","e">>,
      <<"c","u","r","r","e","n","t">>,
      <<"p","o","w","e","r">>,
      <<"v","[">>,
      <<"i","[">>,
      <<"p","[">>,
      <<"v","o","l","t">>,
      <<"a","m","p">>,
      <<"d","c">>,
      <<"a","c">>>>

ThermalKeywords ==
    <<<<"t","e","m","p">>,
      <<"h","e","a","t">>,
      <<"c","o","o","l">>,
      <<"t","h","e","r","m","a","l">>>>

MechanicalKeywords ==
    <<<<"s","p","e","e","d">>,
      <<"t","o","r","q","u","e">>,
      <<"r","p","m">>,
      <<"m","e","c","h","a","n","i","c","a","l">>,
      <<"o","m","e","g","a">>>>

ControlKeywords ==
    <<<<"c","o","n","t","r","o","l">>,
      <<"r","e","f">>,
      <<"c","m","d">>,
      <<"s","e","t">>,
      <<"g","o","v","e","r","n","o","r">>>>

FaultKeywords ==
    <<<<"f","a","u","l","t">>,
      <<"e","r","r","o","r">>,
      <<"a","l","a","r","m">>,
      <<"t","r","i","p">>>>

\* any(kw in key_lower for kw in kws)
AnyIn(kws, key_lower) == \E i \in 1..Len(kws) : Contains(key_lower, kws[i])

\* The chain with the fault branch tested before the control branch.
CategoryOfKeyFaultFirst(key) ==
    LET key_lower == Lower(key)
    IN  IF Contains(key_lower, TimeKeyword) THEN "time"
        ELSE IF AnyIn(ElectricalKeywords, key_lower) THEN "electrical"
        ELSE IF AnyIn(ThermalKeywords, key_lower) THEN "thermal"
        ELSE IF AnyIn(MechanicalKeywords, key_lower) THEN "mechanical"
        ELSE IF AnyIn(FaultKeywords, key_lower) THEN "fault"
        ELSE IF AnyIn(ControlKeywords, key_lower) THEN "control"
        ELSE "other"

\* The branch of the if / elif chain that one key takes; key_lower is
\* key.lower(), computed once.
CategoryOfKey(key) ==
    CHOOSE cat_key \in
        {IF Contains(key_lower, TimeKeyword) THEN "time"
         ELSE IF AnyIn(ElectricalKeywords, key_lower) THEN "electrical"
         ELSE IF AnyIn(ThermalKeywords, key_lower) THEN "thermal"
         ELSE IF AnyIn(MechanicalKeywords, key_lower) THEN "mechanical"
         ELSE IF AnyIn(ControlKeywords, key_lower) THEN "control"
         ELSE IF AnyIn(FaultKeywords, key_lower) THEN "fault"
         ELSE "other" : key_lower \in {Lower(key)}} : TRUE

EmptyCategories ==
    [electrical |-> <<>>, thermal |-> <<>>, mechanical |-> <<>>,
     control |-> <<>>, fault |-> <<>>, time |-> <<>>, other |-> <<>>]

\* The loop over self.keys from position i (1-based) on.
RECURSIVE CategoriesFrom(_, _, _)
CategoriesFrom(ks, i, categories) ==
    IF i > Len(ks) THEN categories
    ELSE CategoriesFrom(ks, i + 1,
             [categories EXCEPT ![CategoryOfKey(ks[i])] = Append(@, ks[i])])

GetVariableCategories(ks) == CategoriesFrom(ks, 1, EmptyCategories)

---------------------------------------------------------------------------
(* ModelicaMatReader.search_variables *)

\* The match without pattern = pattern.lower().
SearchMatchesPatternAsTyped(pattern, key) == Contains(Lower(key), pattern)

SearchMatches(pattern, key) == Contains(Lower(key), Lower(pattern))

SearchVariables(pattern, ks) ==
    SelectSeq(ks, LAMBDA key : SearchMatches(pattern, key))

---------------------------------------------------------------------------
(* ModelicaMatReader.get_variable_stats                                    *)
(* A float result is kept exact: a rational [num, den] in lowest terms,    *)
(* den > 0.  The standard deviation is the square root of a rational: it   *)
(* is [root |-> TRUE, of |-> q] for the root of q, reduced to a rational   *)
(* when q is the square of one.                                            *)

RECURSIVE Gcd(_, _)
Gcd(a, b) == IF b = 0 THEN a ELSE Gcd(b, a % b)

Abs(x) == IF x < 0 THEN -x ELSE x

Rational(num, den) ==
    LET g == Gcd(Abs(num), den)
    IN  [num |-> num \div g, den |-> den \div g]

RECURSIVE Sum(_)
Sum(s) == IF s = <<>> THEN 0 ELSE Head(s) + Sum(Tail(s))

RECURSIVE NpMin(_)
NpMin(s) ==
    IF Len(s) = 1 THEN s[1]
    ELSE IF Head(s) < NpMin(Tail(s)) THEN Head(s) ELSE NpMin(Tail(s))

RECURSIVE NpMax(_)
NpMax(s) ==
    IF Len(s) = 1 THEN s[1]
    ELSE IF Head(s) > NpMax(Tail(s)) THEN Head(s) ELSE NpMax(Tail(s))

NpMean(s) == Rational(Sum(s), Len(s))

\* The delta degrees of freedom np.std is called with (its default).
Ddof == 0

\* numpy's var: sum(|x - mean|^2) / (n - ddof), with x - mean = (n*x - S)/n.
NpVar(s) ==
    LET n == Len(s)
        S == Sum(s)
    IN  Rational(Sum([i \in 1..n |-> (n * s[i] - S) * (n * s[i] - S)]),
                 n * n * (n - Ddof))

IsSquare(k) == \E r \in 0..k : r * r = k

Sqrt(k) == CHOOSE r \in 0..k : r * r = k

\* np.var in the place of np.std: the variance, no square root taken.
NpStdNoRoot(s) == [root |-> FALSE, of |-> NpVar(s)]

NpStd(s) ==
    LET q == NpVar(s)
    IN  IF IsSquare(q.num) /\ IsSquare(q.den)
        THEN [root |-> FALSE, of |-> Rational(Sqrt(q.num), Sqrt(q.den))]
        ELSE [root |-> TRUE, of |-> q]

GetVariableStats(var_name, vals) ==
    IF var_name \notin DOMAIN vals THEN None
    ELSE IF Len(vals[var_name]) = 0 THEN None
    ELSE [kind |-> "dict",
          min  |-> NpMin(vals[var_name]),
          max  |-> NpMax(vals[var_name]),
          mean |-> NpMean(vals[var_name]),
          std  |-> NpStd(vals[var_name]),
          size |-> Len(vals[var_name])]

---------------------------------------------------------------------------
(* The files scipy.io.loadmat is given.  A .mat file in the OpenModelica   *)
(* layout holds name, dataInfo, data_1 and data_2.                         *)

MatFile(name, dataInfo, data_1, data_2) ==
    [has |-> {"name", "dataInfo", "data_1", "data_2"},
     name |-> name, dataInfo |-> dataInfo, data_1 |-> data_1, data_2 |-> data_2]

\* The name matrix a writer packs for a list of names: one column per name,
\* top to bottom, NUL-padded to nrows rows, and a trailing all-NUL column.
PackNames(names, nrows) ==
    [r \in 1..nrows |->
        [c \in 1..(Len(names) + 1) |->
            IF c <= Len(names) /\ r <= Len(names[c]) THEN names[c][r] ELSE NUL]]

\* The paths the file dialog of select_file can return.
Paths == {"ab.mat", "norows.mat", "missing.mat"}

\* What is stored under each path; "missing.mat" does not exist.
FileAt(path) ==
    CASE path = "ab.mat" ->
           MatFile(PackNames(<<<<"a">>, <<"b">>>>, 2),
                   <<<<2, 2>>, <<2, 3>>>>, <<<<9>>>>,
                   <<<<0, 1>>, <<5, 7>>, <<1, 2>>>>)
      [] path = "c.mat" ->
           MatFile(PackNames(<<<<"c">>>>, 2),
                   <<<<1>>, <<1>>>>, <<<<3>>>>, <<<<0, 1, 2>>>>)
      [] path = "empty.mat" ->
           MatFile(PackNames(<<>>, 2), <<<<>>, <<>>>>, <<<<>>>>, <<<<0>>>>)
      [] path = "norows.mat" ->
           MatFile(<<>>, <<<<>>, <<>>>>, <<<<>>>>, <<<<0>>>>)

\* scipy.io.loadmat(file_path): [exc, data], exc "" when it returns.
Loadmat(path) ==
    IF path = "missing.mat"
    THEN [exc |-> "FileNotFoundError", data |-> None]
    ELSE [exc |-> "", data |-> FileAt(path)]

---------------------------------------------------------------------------
(* LoadingThread and ModelicaMatReader.load_data, statement by statement:  *)
(* the threads share the one reader, so each assignment to a field of the  *)
(* reader is a step of its own.                                            *)

\* How many loads select_file starts.
MaxLoads == 2

Threads == 1..MaxLoads

NoCalls == [load_data |-> 0, loadmat |-> 0, parse_keys |-> 0,
            parse_values |-> 0, extract_time |-> 0]

NewThread == [pc |-> "new", file_path |-> "", exc |-> "",
              ret |-> [success |-> FALSE, message |-> <<>>]]

NoResult == [op |-> "none", args |-> <<>>, ret |-> <<>>]

\* The fields of the reader, as one record.
ReaderFields ==
    [file_path |-> file_path, data |-> data, keys |-> keys,
     values |-> values, time_vector |-> time_vector]

\* The fields of a reader just constructed.
NewReader ==
    [file_path |-> "", data |-> None, keys |-> <<>>,
     values |-> EmptyDict, time_vector |-> <<>>]

\* Nothing kept: the thread is not started, or another load was running.
NotQuiet == [quiet |-> FALSE]

Init ==
    /\ file_path = ""
    /\ data = None
    /\ keys = <<>>
    /\ values = EmptyDict
    /\ time_vector = <<>>
    /\ thr = [t \in Threads |-> NewThread]
    /\ emitted = [t \in Threads |-> <<>>]
    /\ calls = [t \in Threads |-> NoCalls]
    /\ sigq = <<>>
    /\ ui_log = <<>>
    /\ category_lists = EmptyCategories
    /\ before = [t \in Threads |-> NotQuiet]
    /\ result = NoResult

\* ModelicaMatAnalyzer.select_file: the dialog returns a path, a new
\* LoadingThread on the shared reader is started.
SelectFile(t, path) ==
    /\ thr[t].pc = "new"
    /\ \A u \in Threads : u < t => thr[u].pc # "new"
    /\ thr' = [thr EXCEPT ![t] = [@ EXCEPT !.pc = "load_45", !.file_path = path]]
    /\ before' = [before EXCEPT ![t] =
                     IF \A u \in Threads : thr[u].pc \in {"new", "done"}
                     THEN [quiet |-> TRUE, reader |-> ReaderFields]
                     ELSE NotQuiet]
    /\ UNCHANGED <<readerVars, emitted, calls, sigq, ui_log, category_lists, result>>

\* run: self.progress.emit(...), which touches nothing of the reader, then
\* the call of load_data and its first statement, self.file_path = file_path.
Load45(t) ==
    /\ thr[t].pc = "load_45"
    /\ calls' = [calls EXCEPT ![t].load_data = @ + 1]
    /\ file_path' = thr[t].file_path
    /\ thr' = [thr EXCEPT ![t].pc = "load_52"]
    /\ UNCHANGED <<data, keys, values, time_vector,
                   emitted, sigq, ui_log, category_lists, before, result>>

\* self.data = scio.loadmat(file_path)
Load52(t) ==
    /\ thr[t].pc = "load_52"
    /\ calls' = [calls EXCEPT ![t].loadmat = @ + 1]
    /\ LET r == Loadmat(thr[t].file_path)
       IN  IF r.exc = ""
           THEN /\ data' = r.data
                /\ thr' = [thr EXCEPT ![t].pc = "load_55"]
           ELSE /\ data' = data
                /\ thr' = [thr EXCEPT ![t] = [@ EXCEPT !.pc = "load_68", !.exc = r.exc]]
    /\ UNCHANGED <<file_path, keys, values, time_vector,
                   emitted, sigq, ui_log, category_lists, before, result>>

\* self._parse_keys_original()
Load55(t) ==
    /\ thr[t].pc = "load_55"
    /\ calls' = [calls EXCEPT ![t].parse_keys = @ + 1]
    /\ LET r == ParseKeys(data)
       IN  IF r.exc = ""
           THEN /\ keys' = r.keys
                /\ thr' = [thr EXCEPT ![t].pc = "load_58"]
           ELSE /\ keys' = keys
                /\ thr' = [thr EXCEPT ![t] = [@ EXCEPT !.pc = "load_68", !.exc = r.exc]]
    /\ UNCHANGED <<file_path, data, values, time_vector,
                   emitted, sigq, ui_log, category_lists, before, result>>

\* self._parse_values_original()
Load58(t) ==
    /\ thr[t].pc = "load_58"
    /\ calls' = [calls EXCEPT ![t].parse_values = @ + 1]
    /\ values' = ParseValues(keys, data)
    /\ thr' = [thr EXCEPT ![t].pc = "load_61"]
    /\ UNCHANGED <<file_path, data, keys, time_vector,
                   emitted, sigq, ui_log, category_lists, before, result>>

\* self._extract_time_original()
Load61(t) ==
    /\ thr[t].pc = "load_61"
    /\ calls' = [calls EXCEPT ![t].extract_time = @ + 1]
    /\ time_vector' = ExtractTime(data)
    /\ thr' = [thr EXCEPT ![t].pc = "load_65"]
    /\ UNCHANGED <<file_path, data, keys, values,
                   emitted, sigq, ui_log, category_lists, before, result>>

\* The message of a successful load: the number of keys it formats.
SuccessMessage(ks) == <<"loaded", Len(ks)>>

\* The message of a failed load: the text of the exception.
FailureMessage(exc) == <<"failed", exc>>

\* return True, f"... {len(self.keys)} ..."
Load65(t) ==
    /\ thr[t].pc = "load_65"
    /\ thr' = [thr EXCEPT ![t] = [@ EXCEPT !.pc = "run_229",
                   !.ret = [success |-> TRUE, message |-> SuccessMessage(keys)]]]
    /\ UNCHANGED <<readerVars, emitted, calls, sigq, ui_log, category_lists, before, result>>

\* load_data without its except clause: the exception leaves run() and the
\* thread ends with nothing emitted.
Load68Escapes(t) ==
    /\ thr[t].pc = "load_68"
    /\ thr' = [thr EXCEPT ![t].pc = "done"]
    /\ UNCHANGED <<readerVars, emitted, calls, sigq, ui_log, category_lists, before, result>>

\* except Exception as e: ... return False, error_msg
Load68(t) ==
    /\ thr[t].pc = "load_68"
    /\ thr' = [thr EXCEPT ![t] = [@ EXCEPT !.pc = "run_229",
                   !.ret = [success |-> FALSE, message |-> FailureMessage(thr[t].exc)]]]
    /\ UNCHANGED <<readerVars, emitted, calls, sigq, ui_log, category_lists, before, result>>

\* The position after self.finished.emit(success, message).
AfterEmit == "done"

\* run: self.finished.emit(success, message); the signal is queued for the
\* GUI thread, where on_file_loaded is connected to it.
Run229(t) ==
    /\ thr[t].pc = "run_229"
    /\ emitted' = [emitted EXCEPT ![t] = Append(@, thr[t].ret)]
    /\ sigq' = Append(sigq, thr[t].ret)
    /\ thr' = [thr EXCEPT ![t].pc = AfterEmit]
    /\ UNCHANGED <<readerVars, calls, ui_log, category_lists, before, result>>

\* The characters of the names, in code point order.
CodePoints ==
    <<" ", "(", ")", "*", "+", "-", ".", "/",
      "0", "1", "2", "3", "4", "5", "6", "7", "8", "9">>
        \o UpperChars \o <<"[", "]", "_">> \o LowerChars

Ord(c) == CHOOSE i \in 1..Len(CodePoints) : CodePoints[i] = c

\* a < b on two str: by the first position where they differ, a proper
\* prefix first.
StrLess(a, b) ==
    \E i \in 1..Len(b) :
        /\ \A j \in 1..(i - 1) : j <= Len(a) /\ a[j] = b[j]
        /\ \/ i > Len(a)
           \/ i <= Len(a) /\ Ord(a[i]) < Ord(b[i])

\* The sorted list with x put after the entries not greater than it.
RECURSIVE Insert(_, _)
Insert(sorted, x) ==
    IF Len(sorted) = 0 THEN <<x>>
    ELSE IF StrLess(x, Head(sorted)) THEN <<x>> \o sorted
    ELSE <<Head(sorted)>> \o Insert(Tail(sorted), x)

\* sorted(variables), the list taken from position i (1-based) on and put
\* entry by entry into the sorted list.
RECURSIVE SortedFrom(_, _, _)
SortedFrom(variables, i, sorted) ==
    IF i > Len(variables) THEN sorted
    ELSE SortedFrom(variables, i + 1, Insert(sorted, variables[i]))

Sorted(variables) == SortedFrom(variables, 1, <<>>)

\* populate_variable_lists: nothing when self.reader.keys is empty, else
\* every list is cleared and filled with the sorted names of its category.
PopulateVariableLists(ks, lists) ==
    IF Len(ks) = 0 THEN lists
    ELSE CHOOSE filled \in
             {[cat_key \in DOMAIN lists |-> Sorted(categories[cat_key])] :
                 categories \in {GetVariableCategories(ks)}} : TRUE

\* ModelicaMatAnalyzer.on_file_loaded(success, message): on success the
\* lists are filled from the reader as it is now; then the message box.
\* (The labels, the info text and the status bar are not part of the state.)
OnFileLoaded ==
    /\ sigq # <<>>
    /\ category_lists' = IF Head(sigq).success
                         THEN PopulateVariableLists(keys, category_lists)
                         ELSE category_lists
    /\ ui_log' = Append(ui_log, Head(sigq))
    /\ sigq' = Tail(sigq)
    /\ UNCHANGED <<readerVars, thr, emitted, calls, before, result>>

ThreadStep(t) ==
    \/ Load45(t)
    \/ Load52(t)
    \/ Load55(t)
    \/ Load58(t)
    \/ Load61(t)
    \/ Load65(t)
    \/ Load68(t)
    \/ Run229(t)

Next ==
    \/ \E t \in Threads, path \in Paths : SelectFile(t, path)
    \/ \E t \in Threads : ThreadStep(t)
    \/ OnFileLoaded

Spec == Init /\ [][Next]_vars

\* A started QThread runs to the end of run(), and the GUI event loop
\* delivers every queued signal.
FairSpec ==
    /\ Init
    /\ [][Next]_vars
    /\ \A t \in Threads : WF_vars(ThreadStep(t))
    /\ WF_vars(OnFileLoaded)

\* Thread t has run each stage of the pipeline at most once and emitted
\* at most one finished signal; once it has ended it has emitted exactly one,
\* a success after all three stages or a failure carrying the exception text.
RanOnceReportedOnce(t) ==
    /\ calls[t].load_data <= 1
    /\ calls[t].loadmat <= 1
    /\ calls[t].parse_keys <= 1
    /\ calls[t].parse_values <= 1
    /\ Len(emitted[t]) <= 1
    /\ thr[t].pc = "done" => Len(emitted[t]) = 1
    /\ \A i \in 1..Len(emitted[t]) :
          IF emitted[t][i].success
          THEN /\ emitted[t][i].message[1] = "loaded"
               /\ calls[t].loadmat = 1 /\ calls[t].parse_keys = 1
               /\ calls[t].parse_values = 1
          ELSE /\ emitted[t][i].message[1] = "failed"
               /\ emitted[t][i].message[2] # ""

\* C10: every load request runs deserialize, decode and resolve at most once
\* and eventually reports exactly one terminal outcome, success or failure
\* with a message; it never reports twice and never retries.
C10_OneOutcomePerLoad ==
    /\ [](\A t \in Threads : RanOnceReportedOnce(t))
    /\ \A t \in Threads : (thr[t].pc # "new") ~> (Len(emitted[t]) = 1)

\* C10 witness: two loads have ended, one reported success, the other failure.
C10_Witness ==
    \E t, u \in Threads :
        /\ thr[t].pc = "done" /\ thr[u].pc = "done"
        /\ Len(emitted[t]) = 1 /\ emitted[t][1].success
        /\ Len(emitted[u]) = 1 /\ ~emitted[u][1].success

---------------------------------------------------------------------------
(* The first load of a generated file, stopped at one statement of         *)
(* load_data.  The specifications below start there, with the file drawn   *)
(* from a bounded family, and take the steps under study.                  *)

\* The state in which thread 1, the first load, has come to position pc of
\* load_data with the reader's fields as given.
FirstLoadAt(pc, d, ks, vals, tv) ==
    /\ file_path = "input.mat"
    /\ data = d
    /\ keys = ks
    /\ values = vals
    /\ time_vector = tv
    /\ thr = [t \in Threads |->
                IF t = 1
                THEN [pc |-> pc, file_path |-> "input.mat", exc |-> "",
                      ret |-> IF pc = "done"
                              THEN [success |-> TRUE, message |-> SuccessMessage(ks)]
                              ELSE NewThread.ret]
                ELSE NewThread]
    /\ calls = [t \in Threads |->
                IF t = 1
                THEN [load_data |-> 1, loadmat |-> 1,
                      parse_keys |-> IF pc = "load_55" THEN 0 ELSE 1,
                      parse_values |-> IF pc \in {"load_55", "load_58"} THEN 0 ELSE 1,
                      extract_time |-> IF pc = "done" THEN 1 ELSE 0]
                ELSE NoCalls]
    /\ emitted = [t \in Threads |->
                IF t = 1 /\ pc = "done"
                THEN <<[success |-> TRUE, message |-> SuccessMessage(ks)]>>
                ELSE <<>>]
    /\ sigq = <<>>
    /\ ui_log = IF pc = "done"
                THEN <<[success |-> TRUE, message |-> SuccessMessage(ks)]>>
                ELSE <<>>
    /\ category_lists = IF pc = "done"
                        THEN PopulateVariableLists(ks, EmptyCategories)
                        ELSE EmptyCategories
    /\ before = [t \in Threads |->
                IF t = 1 THEN [quiet |-> TRUE, reader |-> NewReader]
                ELSE NotQuiet]
    /\ result = NoResult

\* The state after the first load, of file d, has succeeded and been shown.
Loaded(d) ==
    FirstLoadAt("done", d, ParseKeys(d).keys,
                ParseValues(ParseKeys(d).keys, d), ExtractTime(d))

\* All sequences over S of length at most n.
SeqsUpTo(S, n) == UNION {[1..k -> S] : k \in 0..n}

---------------------------------------------------------------------------
(* Decoding: name matrices of at most MaxRows rows, each row a str of at   *)
(* most MaxCols characters (numpy drops a row's trailing NULs, so rows     *)
(* differ in length), the step being self._parse_keys_original().          *)

MaxRows == 3
MaxCols == 3

NameChars == {"a", NUL}

NameMatrices == SeqsUpTo(SeqsUpTo(NameChars, MaxCols), MaxRows)

InitDecode ==
    \E m \in NameMatrices :
        FirstLoadAt("load_55", MatFile(m, <<<<>>, <<>>>>, <<<<>>>>, <<<<0>>>>),
                    <<>>, EmptyDict, <<>>)

NextDecode == \E t \in Threads : Load55(t)

SpecDecode == InitDecode /\ [][NextDecode]_vars

\* decode has returned: load_data is past line 55 without an exception.
Decoded == thr[1].pc = "load_58"

\* decode raised: load_data is in its except clause.
DecodeRaised == thr[1].pc = "load_68"

\* The columns decode processes: all but the final one (0-based).
ProcessedColumns == 0..(Len(data.name[1]) - 2)

\* The rows (0-based, among the first n) at which column c ends: the row is
\* too short to hold it, or holds NUL there.
EndRows(c, n) ==
    {r \in 0..(n - 1) :
        \/ Len(data.name[r + 1]) <= c
        \/ data.name[r + 1][c + 1] = NUL}

\* key is column c's characters in rows 0..n-1, up to the first end row.
IsColumnPrefix(key, c, n) ==
    /\ Len(key) = IF EndRows(c, n) = {} THEN n
                  ELSE CHOOSE r \in EndRows(c, n) : \A q \in EndRows(c, n) : r <= q
    /\ \A r \in 1..Len(key) : key[r] = data.name[r][c + 1]

\* C5 as stated: the name of every processed column is the column's
\* characters before the first NUL or ragged cut, over every row of the
\* matrix, the last row included.
C5_NameIsWholeColumn ==
    Decoded =>
        \A c \in ProcessedColumns : IsColumnPrefix(keys[c + 1], c, Len(data.name))

\* C5 amended: the name of every processed column is the column's characters
\* before the first NUL or ragged cut among the rows above the final row; the
\* final row of the matrix is never read.
C5_NameIsColumnAboveLastRow ==
    Decoded =>
        /\ Len(keys) = Cardinality(ProcessedColumns)
        /\ \A c \in ProcessedColumns :
              IsColumnPrefix(keys[c + 1], c, Len(data.name) - 1)

\* C5 witness: decode has produced two names, one cut by a NUL and one that
\* ran to the row above the final row, whose final-row character is not NUL.
C5_Witness ==
    /\ Decoded
    /\ Len(data.name) = 3
    /\ Len(keys) = 2
    /\ keys[1] = <<"a">>
    /\ Len(data.name[2]) >= 1
    /\ data.name[2][1] = NUL
    /\ keys[2] = <<"a", "a">>
    /\ Len(data.name[3]) >= 2
    /\ data.name[3][2] = "a"

\* C6 as stated: decode never raises; for every name matrix, zero rows
\* included, it returns one name per column except the final one.
C6_DecodeNeverRaises ==
    /\ ~DecodeRaised
    /\ Decoded =>
          Len(keys) = IF Len(data.name) = 0 \/ Len(data.name[1]) = 0 THEN 0
                      ELSE Len(data.name[1]) - 1

---------------------------------------------------------------------------
(* Resolution: files of at most MaxNames names over two letters, a         *)
(* dataInfo of as many columns or fewer, a one-row data_1 (sometimes       *)
(* missing from the file) and a two-row data_2; the step is                *)
(* self._parse_values_original().                                          *)

MaxNames == 2

Selectors == {0, 1, 2, 3}

RowIndexes == {-1, 0, 1, 2, 3}

ResolveBlock1 == <<<<9>>>>

ResolveBlock2 == <<<<0, 1>>, <<5, 7>>>>

\* The dataInfo array of the columns cols, each a <<selector, row index>>:
\* row 0 the selectors, row 1 the 1-based row indexes.
DataInfo(cols) ==
    <<[c \in 1..Len(cols) |-> cols[c][1]], [c \in 1..Len(cols) |-> cols[c][2]]>>

ResolveFile(names, cols, missing) ==
    [MatFile(PackNames(names, 2), DataInfo(cols), ResolveBlock1, ResolveBlock2)
        EXCEPT !.has = @ \ missing]

InitResolve ==
    \E names \in SeqsUpTo({<<"a">>, <<"b">>}, MaxNames) :
        \E k \in 0..Len(names) :
            \E cols \in [1..k -> Selectors \X RowIndexes] :
                \E missing \in {{}, {"data_1"}} :
                    FirstLoadAt("load_58", ResolveFile(names, cols, missing),
                                ParseKeys(ResolveFile(names, cols, missing)).keys,
                                EmptyDict, <<>>)

NextResolve == \E t \in Threads : Load58(t)

SpecResolve == InitResolve /\ [][NextResolve]_vars

\* resolve has returned: load_data is past line 58.
Resolved == thr[1].pc = "load_61"

\* The rows of the block a selector names; none when the file lacks it.
BlockRows(sel) ==
    IF sel = 1 /\ "data_1" \in data.has THEN data.data_1
    ELSE IF sel = 2 /\ "data_2" \in data.has THEN data.data_2
    ELSE <<>>

\* The pair dataInfo holds for the name at position i (1-based) is valid:
\* the selector is 1 or 2 and the row index less one is a 0-based offset
\* into that block, at least 0 and below its row count.
ValidPair(i) ==
    /\ i <= Len(data.dataInfo[1])
    /\ data.dataInfo[1][i] \in {1, 2}
    /\ data.dataInfo[2][i] - 1 >= 0
    /\ data.dataInfo[2][i] - 1 < Len(BlockRows(data.dataInfo[1][i]))

\* The name at position i is decoded from that column only.
OccursOnce(i) == \A j \in 1..Len(keys) : keys[j] = keys[i] => j = i

\* C1 as stated, for the names decoded from one column only: a valid pair
\* puts a series of the selected block's row length under the name; any
\* other pair (selector not 1 or 2, row index out of bounds, a row index of 0
\* or below included) leaves the name absent from the table.
C1_ResolvedIffValidPair ==
    Resolved =>
        \A i \in 1..Len(keys) :
            OccursOnce(i) =>
                IF ValidPair(i)
                THEN /\ keys[i] \in DOMAIN values
                     /\ Len(values[keys[i]])
                          = Len(BlockRows(data.dataInfo[1][i])[1])
                ELSE keys[i] \notin DOMAIN values

\* The column at position i (1-based) resolves: dataInfo holds a pair for
\* it, the selector is 1 or 2, the block is in the file and numpy accepts
\* the row index less one as an index into the block.
ColumnResolves(i) ==
    /\ i <= Len(data.dataInfo[1])
    /\ data.dataInfo[1][i] \in {1, 2}
    /\ BlockRows(data.dataInfo[1][i]) # <<>>
    /\ NpInBounds(Len(BlockRows(data.dataInfo[1][i])), data.dataInfo[2][i] - 1)

\* The row the column at position i resolves to.
ResolvedRow(i) ==
    BlockRows(data.dataInfo[1][i])[
        NpPos(Len(BlockRows(data.dataInfo[1][i])), data.dataInfo[2][i] - 1)]

\* The columns that hold the name and resolve.
ResolvingColumns(name) ==
    {i \in 1..Len(keys) : keys[i] = name /\ ColumnResolves(i)}

\* C14: when a name is decoded from several columns, every column that
\* resolves overwrites the entry, so after resolve the entry of the name is
\* the series of the last column with that name that resolved.
C14_LastResolvedColumnWins ==
    Resolved =>
        \A i \in 1..Len(keys) :
            IF ResolvingColumns(keys[i]) = {}
            THEN keys[i] \notin DOMAIN values
            ELSE /\ keys[i] \in DOMAIN values
                 /\ values[keys[i]] =
                      ResolvedRow(CHOOSE j \in ResolvingColumns(keys[i]) :
                                      \A q \in ResolvingColumns(keys[i]) : q <= j)

\* C14 witness: the name a was decoded from two columns, both resolved, to
\* different rows, and the table holds the row of the second.
C14_Witness ==
    /\ Resolved
    /\ Len(keys) = 2
    /\ keys[1] = keys[2]
    /\ ColumnResolves(1) /\ ColumnResolves(2)
    /\ ResolvedRow(1) # ResolvedRow(2)
    /\ values[keys[1]] = ResolvedRow(2)

---------------------------------------------------------------------------
(* Calls of the GUI on the reader after a load: each records in `result`   *)
(* the method, its argument and what it returned.                          *)

CallReadVariables(read_keys) ==
    /\ result' = [op |-> "read_variables", args |-> read_keys,
                  ret |-> <<ReadVariables(read_keys, values), time_vector>>]
    /\ UNCHANGED <<readerVars, threadVars, category_lists>>

CallGetVariableCategories ==
    /\ result' = [op |-> "get_variable_categories", args |-> <<>>,
                  ret |-> GetVariableCategories(keys)]
    /\ UNCHANGED <<readerVars, threadVars, category_lists>>

CallSearchVariables(pattern) ==
    /\ result' = [op |-> "search_variables", args |-> pattern,
                  ret |-> SearchVariables(pattern, keys)]
    /\ UNCHANGED <<readerVars, threadVars, category_lists>>

CallGetVariableStats(var_name) ==
    /\ result' = [op |-> "get_variable_stats", args |-> var_name,
                  ret |-> GetVariableStats(var_name, values)]
    /\ UNCHANGED <<readerVars, threadVars, category_lists>>

---------------------------------------------------------------------------
(* Expressions: a loaded file of four names, each unresolved or bound to   *)
(* a row of data_2 (three samples) or of data_1 (two samples), and         *)
(* read_variables on at most MaxRequest keys.                              *)

MaxRequest == 2

NameA == <<"a">>   \* a
NameB == <<"b">>   \* b
NameA1 == <<"a","[","1","]">>   \* a[1]
NameDerB == <<"d","e","r","(","b",")">>   \* der(b)

ExprNames == <<NameA, NameB, NameA1, NameDerB>>

ExprBlock1 == <<<<1, 2>>>>

ExprBlock2 == <<<<0, 1, 2>>, <<5, 7, 9>>, <<1, 2, 3>>>>

\* <<selector, row index>>: unresolved, data_2 rows 1 and 2, data_1 row 0.
ExprPairs == {<<0, 1>>, <<2, 2>>, <<2, 3>>, <<1, 1>>}

KeyAMinusB == <<"a","-","b">>   \* 'a-b'
KeyA1MinusB == <<"a","[","1","]","-","b">>   \* 'a[1]-b'
KeyPadded == <<" ","a","[","1","]"," ","-"," ","b">>   \* ' a[1] - b'
KeyThreeOperands == <<"a","[","1","]","-","b","-","a">>   \* 'a[1]-b-a'
KeyAPlusB == <<"a","+","b">>   \* 'a+b'
KeyA1TimesB == <<"a","[","1","]","*","b">>   \* 'a[1]*b'
KeyDerBMinusA1 == <<"d","e","r","(","b",")","-","a","[","1","]">>   \* 'der(b)-a[1]'
KeyC == <<"c">>   \* 'c'
KeyA1Minus == <<"a","[","1","]","-">>   \* 'a[1]-'

\* The keys read_variables is asked for: the four names and these keys.
RequestKeys ==
    {NameA, NameA1, NameDerB,
     KeyAMinusB, KeyA1MinusB, KeyPadded,
     KeyThreeOperands, KeyAPlusB, KeyA1TimesB,
     KeyDerBMinusA1, KeyC, KeyA1Minus}

InitExpr ==
    \E cols \in [1..Len(ExprNames) -> ExprPairs] :
        Loaded(MatFile(PackNames(ExprNames, 10), DataInfo(cols),
                       ExprBlock1, ExprBlock2))

\* One call per behaviour: what a call returns does not depend on `result`.
NextExpr ==
    /\ result = NoResult
    /\ \E read_keys \in SeqsUpTo(RequestKeys, MaxRequest) :
           CallReadVariables(read_keys)

SpecExpr == InitExpr /\ [][NextExpr]_vars

\* read_variables has returned: the keys it was asked for and the list rv.
ReadDone == result.op = "read_variables"

Requested == result.args

Returned == result.ret[1]

\* C2 as stated: one entry per requested name, in request order; the literal
\* series when the table holds the name, else the evaluated expression when
\* the name is one, else the empty series.
C2_LiteralBeforeExpression ==
    ReadDone =>
        /\ Len(Returned) = Len(Requested)
        /\ \A i \in 1..Len(Requested) :
              Returned[i] =
                  IF Requested[i] \in DOMAIN values THEN values[Requested[i]]
                  ELSE IF IsExpression(Requested[i])
                       THEN EvaluateExpression(Requested[i], values)
                       ELSE <<>>

\* The positions of '-' in a key.
Dashes(key) == {p \in 1..Len(key) : key[p] = "-"}

\* The trimmed text before, and after, the one '-' of a key.
LeftOperand(key) ==
    Strip(SubSeq(key, 1, (CHOOSE p \in Dashes(key) : TRUE) - 1))

RightOperand(key) ==
    Strip(SubSeq(key, (CHOOSE p \in Dashes(key) : TRUE) + 1, Len(key)))

\* The key splits on '-' into exactly two non-empty trimmed operands.
TwoOperands(key) ==
    /\ Cardinality(Dashes(key)) = 1
    /\ LeftOperand(key) # <<>>
    /\ RightOperand(key) # <<>>

\* table[L][i] - table[R][i] when both are in the table with equal lengths,
\* the empty sequence otherwise.
DifferenceOrEmpty(L, R) ==
    IF L \in DOMAIN values /\ R \in DOMAIN values
       /\ Len(values[L]) = Len(values[R])
    THEN [i \in 1..Len(values[L]) |-> values[L][i] - values[R][i]]
    ELSE <<>>

\* C3 as stated: every key of exactly two operands evaluates to their
\* elementwise difference, or to the empty sequence when an operand is
\* absent or the lengths differ; 'a-b' with a = [5,7,9], b = [1,2,3] gives
\* [4,5,6].
C3_TwoOperandDifference ==
    ReadDone =>
        \A i \in 1..Len(Requested) :
            TwoOperands(Requested[i]) =>
                Returned[i] = DifferenceOrEmpty(LeftOperand(Requested[i]),
                                                RightOperand(Requested[i]))

\* C3 amended: the same for every key of exactly two operands that contains
\* the character '['; 'a[1]-b' with a[1] = [5,7,9], b = [1,2,3] gives [4,5,6].
C3_BracketedTwoOperandDifference ==
    ReadDone =>
        \A i \in 1..Len(Requested) :
            TwoOperands(Requested[i]) /\ "[" \in Range(Requested[i]) =>
                Returned[i] = DifferenceOrEmpty(LeftOperand(Requested[i]),
                                                RightOperand(Requested[i]))

\* C3 witness: with a[1] = [5,7,9] and b = [1,2,3] in the table, 'a[1]-b'
\* and the padded ' a[1] - b' were each evaluated to [4,5,6].
C3_Witness ==
    /\ ReadDone
    /\ NameA1 \in DOMAIN values /\ NameB \in DOMAIN values
    /\ values[NameA1] = <<5, 7, 9>> /\ values[NameB] = <<1, 2, 3>>
    /\ Requested = <<KeyA1MinusB, KeyPadded>>
    /\ Returned = <<<<4, 5, 6>>, <<4, 5, 6>>>>

\* The key holds one of + * / ( ), or is a subtraction of more than two
\* operands.
Unsupported(key) ==
    \/ Range(key) \cap {"+", "*", "/", "(", ")"} # {}
    \/ Cardinality(Dashes(key)) >= 2

\* C4 as stated: every such key is reported as an expression and evaluates
\* to the empty sequence, whatever the table holds.
C4_UnsupportedIsEmpty ==
    ReadDone =>
        \A i \in 1..Len(Requested) :
            Unsupported(Requested[i]) =>
                IsExpression(Requested[i]) /\ Returned[i] = <<>>

\* C4 amended: every such key is reported as an expression; it evaluates to
\* the empty sequence, except a key that contains '[' and exactly one '-'
\* whose two trimmed operands are names in the table: that key evaluates to
\* their elementwise difference (empty when the lengths differ).
C4_UnsupportedIsEmptyOrDifference ==
    ReadDone =>
        \A i \in 1..Len(Requested) :
            Unsupported(Requested[i]) =>
                /\ IsExpression(Requested[i])
                /\ Returned[i] =
                      IF "[" \in Range(Requested[i])
                         /\ Cardinality(Dashes(Requested[i])) = 1
                      THEN DifferenceOrEmpty(LeftOperand(Requested[i]),
                                             RightOperand(Requested[i]))
                      ELSE <<>>

\* C4 witness: with a, b and a[1] in the table at equal lengths, 'a+b',
\* 'a[1]*b' and 'a[1]-b-a' were each evaluated to the empty sequence.
C4_Witness ==
    /\ ReadDone
    /\ {NameA, NameB, NameA1} \subseteq DOMAIN values
    /\ Len(values[NameA]) = 3 /\ Len(values[NameB]) = 3 /\ Len(values[NameA1]) = 3
    /\ \E i, j \in 1..Len(Requested) :
          /\ Requested[i] = KeyAPlusB /\ Returned[i] = <<>>
          /\ Requested[j] \in {KeyA1TimesB, KeyThreeOperands} /\ Returned[j] = <<>>

---------------------------------------------------------------------------
(* ModelicaMatAnalyzer.export_csv: the columns handed to pandas.  A dict   *)
(* keeps its keys in insertion order, so export_data is its list of        *)
(* column names together with the series under each.                       *)

\* The column name under which export_csv stores the time series.
TimeColumn == <<"t","i","m","e">>

\* export_data[name] = v: a new name is a new last column, a name already
\* there keeps its place and takes the new series.
PutColumn(export_data, name, v) ==
    [columns |-> IF name \in DOMAIN export_data.data
                 THEN export_data.columns
                 ELSE Append(export_data.columns, name),
     data |-> Put(export_data.data, name, v)]

\* for var_name, data in zip(self.selected_variables, var_data), from
\* position i (1-based) on.
RECURSIVE ExportDataFrom(_, _, _, _, _)
ExportDataFrom(selected, var_data, time_data, i, export_data) ==
    IF i > Len(selected) THEN export_data
    ELSE ExportDataFrom(selected, var_data, time_data, i + 1,
             IF Len(var_data[i]) > 0 /\ Len(var_data[i]) = Len(time_data)
             THEN PutColumn(export_data, selected[i], var_data[i])
             ELSE export_data)

\* export_data = {'time': time_data} and the loop.
ExportData(selected, var_data, time_data) ==
    ExportDataFrom(selected, var_data, time_data, 1,
        PutColumn([columns |-> <<>>, data |-> EmptyDict], TimeColumn, time_data))

\* export_csv with self.selected_variables = selected (not empty, or the
\* handler returns after its warning) and a path chosen in the save dialog
\* (the handler returns when the dialog is cancelled): read_variables, then
\* the columns written with DataFrame(export_data).to_csv.
ExportCsv(selected) ==
    /\ Len(selected) > 0
    /\ LET rv == ReadVariables(selected, values)
       IN  result' = [op |-> "export_csv", args |-> selected,
                      ret |-> [var_data |-> rv, time_data |-> time_vector,
                               export_data |-> ExportData(selected, rv, time_vector)]]
    /\ UNCHANGED <<readerVars, threadVars, category_lists>>

\* How many variables the user has put in the selection list.
MaxSelected == 2

\* add_variable_to_selection appends a name only when it is not yet in
\* self.selected_variables: the selections are the lists without repeats.
Selections(names) ==
    {sel \in SeqsUpTo(Range(names), MaxSelected) :
        \A i, j \in 1..Len(sel) : sel[i] = sel[j] => i = j}

\* One export per behaviour of a loaded file of SpecExpr, the selection
\* drawn from the names shown in the lists.
NextExport ==
    /\ result = NoResult
    /\ \E selected \in Selections(ExprNames) : ExportCsv(selected)

SpecExport == InitExpr /\ [][NextExport]_vars

\* export_csv has written its file.
Exported == result.op = "export_csv"

\* The positions of the selection whose variable has a resolved series as
\* long as the time series.
AlignedPositions ==
    {i \in 1..Len(result.args) :
        /\ result.args[i] \in DOMAIN values
        /\ Len(values[result.args[i]]) = Len(time_vector)}

\* C13 as stated: the export holds the time column and then exactly one
\* column, the resolved series, for each selected variable whose resolved
\* length equals the length of the time series, and no other column.
C13_ColumnPerAlignedVariable ==
    Exported =>
        LET columns == result.ret.export_data.columns
            series == result.ret.export_data.data
        IN  /\ Len(columns) = 1 + Cardinality(AlignedPositions)
            /\ columns[1] = TimeColumn
            /\ series[TimeColumn] = time_vector
            /\ \A i \in 1..Len(result.args) :
                  IF i \in AlignedPositions
                  THEN /\ \E c \in 2..Len(columns) : columns[c] = result.args[i]
                       /\ series[result.args[i]] = values[result.args[i]]
                  ELSE \A c \in 1..Len(columns) : columns[c] # result.args[i]

---------------------------------------------------------------------------
(* The window: loads started from select_file, each on its own thread and  *)
(* all on the one reader, the finished signals handled by on_file_loaded,  *)
(* and, at any moment and once per behaviour, an export of names picked    *)
(* from the lists.                                                         *)

\* The paths the file dialog returns here: files of two names, of one name
\* and of no name, a file whose name array has no rows, a path without file.
GuiPaths == Paths \cup {"c.mat", "empty.mat"}

\* The names the lists show, list after list.
ShownNames ==
    category_lists.time \o category_lists.electrical \o category_lists.thermal
        \o category_lists.mechanical \o category_lists.control
        \o category_lists.fault \o category_lists.other

NextGui ==
    \/ \E t \in Threads, path \in GuiPaths : SelectFile(t, path)
    \/ \E t \in Threads : ThreadStep(t)
    \/ OnFileLoaded
    \/ /\ result = NoResult
       /\ \E selected \in Selections(ShownNames) : ExportCsv(selected)

SpecGui == Init /\ [][NextGui]_vars

\* What one load of the file at path leaves in the reader when it succeeds.
LoadResult(path) ==
    [keys |-> ParseKeys(FileAt(path)).keys,
     values |-> ParseValues(ParseKeys(FileAt(path)).keys, FileAt(path)),
     time_vector |-> ExtractTime(FileAt(path))]

\* The paths whose load succeeds.
GoodPaths ==
    {path \in GuiPaths :
        Loadmat(path).exc = "" /\ ParseKeys(FileAt(path)).exc = ""}

\* The names, table and time series of one load: of a file that loads, or
\* of the reader before any load.
OneLoad ==
    {LoadResult(path) : path \in GoodPaths}
        \cup {[keys |-> <<>>, values |-> EmptyDict, time_vector |-> <<>>]}

\* C11 as stated, for the export: whenever it runs, a load in progress or
\* not, the series and the time series it reads off the reader belong to
\* one and the same load.
C11_ExportReadsOneLoad ==
    Exported =>
        \E load \in OneLoad :
            /\ result.ret.var_data = ReadVariables(result.args, load.values)
            /\ result.ret.time_data = load.time_vector

\* The load of thread t has ended in failure, and no other load ran while
\* it did: none was running when it was started, none was started since.
FailedAlone(t) ==
    /\ thr[t].pc = "done"
    /\ ~thr[t].ret.success
    /\ before[t].quiet
    /\ \A u \in Threads : u > t => thr[u].pc = "new"

\* C12 as stated: when a load ends in failure, the reader's file path, raw
\* data, names, table and time series are what they were before it began.
C12_FailedLoadLeavesNoTrace ==
    \A t \in Threads : FailedAlone(t) => ReaderFields = before[t].reader

\* Every load that was requested has finished.
AllLoadsFinished == \A t \in Threads : thr[t].pc \in {"new", "done"}

\* C15 as stated: once every requested load has finished, loads started
\* while an earlier one was running included, the names, the table and the
\* time series of the reader all come from one single file.
C15_FinishedLoadsLeaveOneFile ==
    AllLoadsFinished =>
        [keys |-> keys, values |-> values, time_vector |-> time_vector]
            \in OneLoad

\* How often name occurs in the list.
Count(list, name) == Cardinality({i \in 1..Len(list) : list[i] = name})

\* The last signal on_file_loaded has handled reported success, every load
\* has finished and no signal is waiting: the reader still holds what that
\* load left.
SuccessShown ==
    /\ AllLoadsFinished
    /\ sigq = <<>>
    /\ Len(ui_log) > 0
    /\ ui_log[Len(ui_log)].success

\* C16 as stated: after a load reported as successful the lists hold exactly
\* the decoded names of the file just loaded, each as often as it was
\* decoded, and no name of an earlier file, also when the file has no name.
C16_ListsShowLoadedNames ==
    SuccessShown =>
        /\ Len(ShownNames) = Len(keys)
        /\ \A i \in 1..Len(keys) :
              Count(ShownNames, keys[i]) = Count(keys, keys[i])

---------------------------------------------------------------------------
(* Names: a loaded file of at most MaxKeys names, each made of at most two *)
(* fragments (one keyword of each rule of get_variable_categories, one of  *)
(* them with an upper-case letter; the empty name matches no rule), and    *)
(* the calls get_variable_categories() and search_variables(pattern).      *)

MaxKeys == 2

\* One name fragment per rule of get_variable_categories, in rule order.
Fragments ==
    <<<<"T","i","m","e">>,
      <<"d","c">>,
      <<"t","e","m","p">>,
      <<"r","p","m">>,
      <<"s","e","t">>,
      <<"t","r","i","p">>>>

\* The empty name, each fragment alone, each pair of fragments of two rules
\* with the later rule's fragment written first, and one pair (set, trip)
\* written in rule order as well.
NamePool ==
    {<<>>, Fragments[5] \o Fragments[6]}
        \cup {Fragments[i] : i \in 1..Len(Fragments)}
        \cup {Fragments[p[2]] \o Fragments[p[1]] :
                  p \in {q \in (1..Len(Fragments)) \X (1..Len(Fragments)) :
                            q[1] < q[2]}}

SearchPatterns == {<<>>, <<"T">>, <<"M","P">>}

RECURSIVE MaxLen(_, _)
MaxLen(names, i) ==
    IF i > Len(names) THEN 0
    ELSE IF Len(names[i]) > MaxLen(names, i + 1) THEN Len(names[i])
    ELSE MaxLen(names, i + 1)

\* A file that holds the names and no values for them.
NamesFile(names) ==
    MatFile(PackNames(names, MaxLen(names, 1) + 1),
            DataInfo([c \in 1..Len(names) |-> <<0, 1>>]), <<<<1>>>>, <<<<0>>>>)

InitNames ==
    \E names \in SeqsUpTo(NamePool, MaxKeys) : Loaded(NamesFile(names))

NextNames ==
    /\ result = NoResult
    /\ \/ CallGetVariableCategories
       \/ \E pattern \in SearchPatterns : CallSearchVariables(pattern)

SpecNames == InitNames /\ [][NextNames]_vars

\* The j-th smallest element of a set I of positions.
NthOf(I, j) == CHOOSE i \in I : Cardinality({k \in I : k < i}) = j - 1

\* sub is seq restricted to the positions I, in the order of seq.
IsSubsequenceAt(sub, seq, I) ==
    /\ Len(sub) = Cardinality(I)
    /\ \A j \in 1..Len(sub) : sub[j] = seq[NthOf(I, j)]

\* The rules in priority order: a label and its keywords.
Rules ==
    <<[label |-> "time", keywords |-> <<TimeKeyword>>],
      [label |-> "electrical", keywords |-> ElectricalKeywords],
      [label |-> "thermal", keywords |-> ThermalKeywords],
      [label |-> "mechanical", keywords |-> MechanicalKeywords],
      [label |-> "control", keywords |-> ControlKeywords],
      [label |-> "fault", keywords |-> FaultKeywords]>>

CategoryLabels ==
    {"time", "electrical", "thermal", "mechanical", "control", "fault", "other"}

\* The lower-cased name key_lower contains a keyword of rule r.
RuleMatches(r, key_lower) ==
    \E k \in 1..Len(Rules[r].keywords) :
        Contains(key_lower, Rules[r].keywords[k])

\* The label of the first rule that matches, "other" when none does.
FirstRuleLabel(name) ==
    LET key_lower == Lower(name)
        matching == {r \in 1..Len(Rules) : RuleMatches(r, key_lower)}
    IN  IF matching = {} THEN "other"
        ELSE Rules[CHOOSE r \in matching : \A q \in matching : r <= q].label

\* C7: classify puts every decoded name in exactly one of the seven lists,
\* that of the first rule (time, electrical, thermal, mechanical, control,
\* fault) whose keyword its lower-cased form contains, or other; each list
\* holds its names once per occurrence, in decode order.
C7_FirstMatchingRule ==
    result.op = "get_variable_categories" =>
        LET labels == [i \in 1..Len(keys) |-> FirstRuleLabel(keys[i])]
        IN  /\ DOMAIN result.ret = CategoryLabels
            /\ \A c \in CategoryLabels :
                  IsSubsequenceAt(result.ret[c], keys,
                      {i \in 1..Len(keys) : labels[i] = c})

\* C7 witness: two names that each hold a control keyword (set) and a fault
\* keyword (trip) were both classified control, in decode order.
C7_Witness ==
    /\ result.op = "get_variable_categories"
    /\ keys = <<<<"t","r","i","p","s","e","t">>, <<"s","e","t","t","r","i","p">>>>
    /\ result.ret.control = keys
    /\ result.ret.fault = <<>>

\* C8: search returns all and only the decoded names whose lower-cased form
\* contains the lower-cased pattern, in decode order, duplicates kept; the
\* empty pattern returns every decoded name.
C8_SearchAllAndOnly ==
    result.op = "search_variables" =>
        /\ IsSubsequenceAt(result.ret, keys,
              {i \in 1..Len(keys) : Contains(Lower(keys[i]), Lower(result.args))})
        /\ result.args = <<>> => result.ret = keys

\* C8 witness: the pattern 'T' was searched among 'dc' and 'trip' and only
\* 'trip' was returned.
C8_Witness ==
    /\ result.op = "search_variables"
    /\ result.args = <<"T">>
    /\ keys = <<<<"d","c">>, <<"t","r","i","p">>>>
    /\ result.ret = <<<<"t","r","i","p">>>>

---------------------------------------------------------------------------
(* Statistics: a loaded file with x bound to a row of at most MaxSamples   *)
(* samples (or the eight samples 2,4,4,4,5,5,7,9) and y unresolved, and    *)
(* the call get_variable_stats(var_name).                                  *)

MaxSamples == 3

SampleValues == {-1, 0, 1, 2}

ExampleSeries == <<2, 4, 4, 4, 5, 5, 7, 9>>

StatNames == <<<<"x">>, <<"y">>>>

\* data_2: the time row and one row of samples of the same length.
StatsFile(samples) ==
    MatFile(PackNames(StatNames, 2), <<<<2, 0>>, <<2, 1>>>>, <<<<1>>>>,
            <<[i \in 1..Len(samples) |-> i - 1], samples>>)

InitStats ==
    \E samples \in SeqsUpTo(SampleValues, MaxSamples) \cup {ExampleSeries} :
        Loaded(StatsFile(samples))

NextStats ==
    /\ result = NoResult
    /\ \E var_name \in Range(StatNames) : CallGetVariableStats(var_name)

SpecStats == InitStats /\ [][NextStats]_vars

\* The value of the std field, squared.
StdSquared(std) ==
    IF std.root THEN std.of
    ELSE [num |-> std.of.num * std.of.num, den |-> std.of.den * std.of.den]

\* C9: stats returns absent exactly when the series is missing from the
\* table or has zero length; otherwise min, max, mean, population std
\* (denominator = count) and the count over the whole series; the series
\* [2,4,4,4,5,5,7,9] gives min 2, max 9, mean 5, std 2, count 8.  (The code
\* stores the count under the key 'size'.)
C9_StatsOfWholeSeries ==
    result.op = "get_variable_stats" =>
        LET present == result.args \in DOMAIN values
            s == values[result.args]
            n == Len(s)
            r == result.ret
        IN  /\ (r = None) <=> (~present \/ n = 0)
            /\ r # None =>
                  /\ r.size = n
                  /\ r.min \in Range(s) /\ \A i \in 1..n : r.min <= s[i]
                  /\ r.max \in Range(s) /\ \A i \in 1..n : r.max >= s[i]
                  /\ r.mean.den > 0
                  /\ r.mean.num * n = r.mean.den * Sum(s)
                  /\ StdSquared(r.std).den > 0
                  /\ StdSquared(r.std).num * r.mean.den * r.mean.den * n
                       = StdSquared(r.std).den
                         * Sum([i \in 1..n |->
                                  (s[i] * r.mean.den - r.mean.num)
                                  * (s[i] * r.mean.den - r.mean.num)])
                  /\ s = ExampleSeries =>
                        /\ r.min = 2 /\ r.max = 9 /\ r.size = 8
                        /\ r.mean = [num |-> 5, den |-> 1]
                        /\ r.std = [root |-> FALSE, of |-> [num |-> 2, den |-> 1]]

\* C9 witness: stats of x over [2,4,4,4,5,5,7,9] returned a record.
C9_Witness ==
    /\ result.op = "get_variable_stats"
    /\ result.args = <<"x">>
    /\ <<"x">> \in DOMAIN values
    /\ values[<<"x">>] = ExampleSeries
    /\ result.ret # None
    /\ result.ret.size = 8

=============================================================================
